---- MODULE Spec2Model ----
(***************************************************************************)
(* The loudness-histogram channel of MasterMePlugin                        *)
(* (src/plugin/MasterMePlugin.cpp): the audio callback run() reduces the   *)
(* loudness readings of a measurement window to one peak per ring and      *)
(* writes it into a shared region owned by the UI; setState("histogram")   *)
(* attaches the plugin to such a region, activate() and bufferSizeChanged()*)
(* are the host's lifecycle notifications.                                 *)
(*                                                                         *)
(* Frame counts are scaled: one model frame stands for a block of frames,  *)
(* and kMinimumHistogramBufferSize (declared in a header outside src/) is  *)
(* given a small value on that scale. The maximum the plugin declares for  *)
(* the "Histogram Buffer Size" parameter keeps the value the source gives. *)
(***************************************************************************)
EXTENDS Integers, Sequences, FiniteSets, TLC

\* ------------------------------------------------------------------ bounds

\* Host buffer sizes handed to the constructor and to bufferSizeChanged: from one below
\* the window floor up to MaxBufferSize.
MaxBufferSize == 4
\* Session names the UI can create a shared region under: 1..MaxSessions.
MaxSessions == 2

\* --------------------------------------------------------------- constants

\* The floor of the measurement window (DistrhoPluginInfo.h, outside src/), scaled.
kMinimumHistogramBufferSize == 3
\* The silence floor the peak accumulators start from and are reset to.
kSilenceFloor == -70
\* Samples one ring holds (the ring type is declared outside src/), scaled.
kRingCapacity == 2
\* param.ranges.max of the "Histogram Buffer Size" parameter.
kHistogramBufferSizeMax == 16384

BufferSizes == (kMinimumHistogramBufferSize - 1)..MaxBufferSize
\* A host buffer size above the declared maximum of the parameter.
HugeBufferSize == 2 * kHistogramBufferSizeMax
HostBufferSizes == BufferSizes \cup {HugeBufferSize}
\* Frames delivered by one run() callback: 0..MaxFrames, so a callback can overshoot
\* every threshold.
MaxFrames == MaxBufferSize + 1
FrameCounts == 0..MaxFrames
\* Frames of a callback that is followed line by line: none, one, or a whole buffer.
RaceFrameCounts == {0, 1, MaxBufferSize}
\* run() is explored while the advanced frame counter stays within 0..MaxCounter
\* (far below the 32-bit range of the counter, which therefore never wraps here).
MaxCounter == MaxBufferSize + 2
\* The drift bookkeeping follows a run of callbacks up to this many frames.
MaxTotalFrames == 2 * MaxBufferSize
\* Loudness readings of the DSP: one below, one at and one above the silence floor.
Readings == {kSilenceFloor - 1, kSilenceFloor, kSilenceFloor + 1}
\* The readings of a signal that is audible throughout.
LoudReadings == {kSilenceFloor + 1}
SessionNames == 1..MaxSessions
\* No reading has been observed since the peaks were last reset.
NoReading == kSilenceFloor - 2
\* The null pointer, and the unattached state of the shared-memory handle.
Null == 0
ModeValues == {"simple"}

VARIABLES
    \* members of MasterMePlugin
    mode,
    bufferSizeForHistogram,
    numFramesSoFar,
    lufsInFifo,
    lufsOutFifo,
    histogramSharedData,
    highestLufsInValue,
    highestLufsOutValue,
    histogramActive,
    \* the host's current buffer size, as getBufferSize() returns it
    bufferSize,
    \* the shared regions, by session name
    shm,
    \* what the most recent call did: the operation and the branch it took, the samples it
    \* handed to each ring control, its reads of `closed`, its calls of dsp->compute, its
    \* failed DISTRHO_SAFE_ASSERTs and, at a flush that wrote, the highest readings of the
    \* window it closed; for a drain by the UI, the samples it took out of each ring
    last,
    \* the highest reading handed to run() since the peaks were last reset
    windowMaxIn,
    windowMaxOut,
    \* frames and flush points since the counter was last zeroed, at an unchanged threshold
    drift,
    \* whether the channel was deactivated on `closed` and attached again since
    phase,
    \* where a run() callback on the audio thread and a setState("histogram") call on the
    \* host thread stand when they are followed line by line: the line each is at, the
    \* locals they hold, and the region each ring control put this callback's sample into
    race

vars == <<mode, bufferSizeForHistogram, numFramesSoFar, lufsInFifo, lufsOutFifo,
          histogramSharedData, highestLufsInValue, highestLufsOutValue, histogramActive,
          bufferSize, shm, last, windowMaxIn, windowMaxOut, drift, phase, race>>

plugin == <<mode, bufferSizeForHistogram, numFramesSoFar, lufsInFifo, lufsOutFifo,
            histogramSharedData, highestLufsInValue, highestLufsOutValue, histogramActive>>

\* ----------------------------------------------------------------- helpers

Max(a, b) == IF a >= b THEN a ELSE b

\* uint -> float, as getParameterValue returns a uint member: exact below 2^24.
Pow2(k) == 2 ^ k
FloatExponent(u) == CHOOSE k \in 0..30 : Pow2(k) <= u /\ (k = 30 \/ u < Pow2(k + 1))
ToFloat(u) ==
    IF u < 16777216 THEN u
    ELSE LET ulp == Pow2(FloatExponent(u) - 23)
             q == u \div ulp
             r == u % ulp
         IN  IF 2 * r < ulp \/ (2 * r = ulp /\ q % 2 = 0) THEN q * ulp ELSE (q + 1) * ulp

EmptyRegion == [exists |-> FALSE, closed |-> FALSE, lufsIn |-> <<>>, lufsOut |-> <<>>]

NoCall == [op |-> "init", outcome |-> "-", wroteIn |-> <<>>, wroteOut |-> <<>>,
           closedReads |-> 0, computeCalls |-> 0, asserts |-> 0,
           maxIn |-> NoReading, maxOut |-> NoReading,
           drainedIn |-> <<>>, drainedOut |-> <<>>]

Call(op, outcome) == [NoCall EXCEPT !.op = op, !.outcome = outcome]

\* The drift bookkeeping: off, or the frames delivered and the flush points passed since the
\* counter was zeroed, and whether every callback delivered at most the threshold.
\* It is kept (armed) only where a specification asks for it.
Unarmed == [armed |-> FALSE, on |-> FALSE, frames |-> 0, flushes |-> 0, small |-> FALSE]
NoDrift == [Unarmed EXCEPT !.armed = TRUE]
FreshDrift == [armed |-> TRUE, on |-> TRUE, frames |-> 0, flushes |-> 0, small |-> TRUE]

\* No callback and no setState("histogram") call is in progress.
NoRace == [rpc |-> "idle", spc |-> "idle", data |-> Null, stale |-> FALSE, value |-> Null,
           inTo |-> Null, outTo |-> Null]

\* ------------------------------------------------------------ construction

\* Mutant: the threshold follows the host buffer size with no floor.
HistogramBufferSizeUnfloored(hostBufferSize) == hostBufferSize

\* MasterMePlugin(): bufferSizeForHistogram = max(kMinimumHistogramBufferSize, getBufferSize())
HistogramBufferSizeFor(hostBufferSize) == Max(kMinimumHistogramBufferSize, hostBufferSize)

Init ==
    /\ bufferSize \in BufferSizes
    /\ mode = ""
    /\ bufferSizeForHistogram = HistogramBufferSizeFor(bufferSize)
    /\ numFramesSoFar = 0
    /\ lufsInFifo = Null
    /\ lufsOutFifo = Null
    /\ histogramSharedData = Null
    /\ highestLufsInValue = kSilenceFloor
    /\ highestLufsOutValue = kSilenceFloor
    /\ histogramActive = FALSE
    /\ shm = [n \in SessionNames |-> EmptyRegion]
    /\ last = NoCall
    /\ windowMaxIn = NoReading
    /\ windowMaxOut = NoReading
    /\ drift = Unarmed
    /\ phase = "fresh"
    /\ race = NoRace

\* ------------------------------------------------------ bufferSizeChanged

bufferSizeChanged(newBufferSize) ==
    /\ bufferSize' = newBufferSize
    /\ bufferSizeForHistogram' = HistogramBufferSizeFor(newBufferSize)
    /\ last' = Call("bufferSizeChanged", "-")
    /\ drift' = IF bufferSizeForHistogram' = bufferSizeForHistogram \/ ~drift.armed
                THEN drift ELSE NoDrift
    /\ UNCHANGED <<mode, numFramesSoFar, lufsInFifo, lufsOutFifo, histogramSharedData,
                   highestLufsInValue, highestLufsOutValue, histogramActive, shm,
                   windowMaxIn, windowMaxOut, phase, race>>

\* ---------------------------------------------------------------- activate

activate ==
    /\ numFramesSoFar' = 0
    /\ last' = Call("activate", "-")
    /\ drift' = IF drift.armed THEN FreshDrift ELSE drift
    /\ UNCHANGED <<mode, bufferSizeForHistogram, lufsInFifo, lufsOutFifo, histogramSharedData,
                   highestLufsInValue, highestLufsOutValue, histogramActive, bufferSize, shm,
                   windowMaxIn, windowMaxOut, phase, race>>

\* ------------------------------------------------- the shared region (UI side)

\* Mutant: a write puts the sample in front of the samples already in the ring.
RingWriteNewestFirst(ring, sample) ==
    IF Len(ring) < kRingCapacity THEN <<sample>> \o ring ELSE <<sample>> \o Tail(ring)

\* LoudnessRing.write: never fails; a full ring loses its oldest sample.
RingWrite(ring, sample) ==
    IF Len(ring) < kRingCapacity THEN Append(ring, sample) ELSE Append(Tail(ring), sample)

\* SharedMemory::connect(name): the region's payload, or nullptr when no region has that name.
Connect(mem, name) == IF mem[name].exists THEN name ELSE Null

\* SharedMemory::getDataPointer(): nullptr while unattached.
DataPointer == histogramSharedData

\* SharedMemory::close() by the plugin: a region whose name is already gone is released
\* with its last mapping.
Released(mem, region) ==
    IF region # Null /\ ~mem[region].exists THEN [mem EXCEPT ![region] = EmptyRegion] ELSE mem

\* The UI creates the region of a session, one session at a time, under a name the
\* plugin maps no memory of: both rings empty, closed clear.
uiCreate(n) ==
    /\ \A m \in SessionNames : ~shm[m].exists
    /\ histogramSharedData # n
    /\ shm' = [shm EXCEPT ![n] = [EmptyRegion EXCEPT !.exists = TRUE]]
    /\ last' = Call("ui", "-")
    /\ UNCHANGED <<plugin, bufferSize, windowMaxIn, windowMaxOut, drift, phase, race>>

\* The UI disconnects: signalClosed().
uiSignalClosed(n) ==
    /\ shm[n].exists
    /\ ~shm[n].closed
    /\ shm' = [shm EXCEPT ![n].closed = TRUE]
    /\ last' = Call("ui", "-")
    /\ UNCHANGED <<plugin, bufferSize, windowMaxIn, windowMaxOut, drift, phase, race>>

\* LoudnessRing.drainAll: every available sample, oldest first.
Drained(ring) == ring

\* The UI drains both rings.
uiDrain(n) ==
    /\ shm[n].exists
    /\ shm[n].lufsIn # <<>> \/ shm[n].lufsOut # <<>>
    /\ shm' = [shm EXCEPT ![n].lufsIn = <<>>, ![n].lufsOut = <<>>]
    /\ last' = [Call("ui", "drain") EXCEPT !.drainedIn = Drained(shm[n].lufsIn),
                                           !.drainedOut = Drained(shm[n].lufsOut)]
    /\ UNCHANGED <<plugin, bufferSize, windowMaxIn, windowMaxOut, drift, phase, race>>

\* The UI tears its closed session down: the name is gone, the memory stays while mapped.
uiDestroy(n) ==
    /\ shm[n].exists
    /\ shm[n].closed
    /\ shm' = IF histogramSharedData = n
              THEN [shm EXCEPT ![n].exists = FALSE]
              ELSE [shm EXCEPT ![n] = EmptyRegion]
    /\ last' = Call("ui", "-")
    /\ UNCHANGED <<plugin, bufferSize, windowMaxIn, windowMaxOut, drift, phase, race>>

\* ---------------------------------------------------------------- setState

\* isCreatedOrConnected()
IsCreatedOrConnected == histogramSharedData # Null

\* histogramSharedData.connect(value): setState opens the region, it never creates one.
OpenedRegion(mem, value) == Connect(mem, value)

\* A ring control after setState: bound to the connected region, else unbound by the
\* close of the old region, else left alone.
FifoAfterAttach(fifo, fifos) ==
    IF fifos # Null THEN fifos ELSE IF IsCreatedOrConnected THEN Null ELSE fifo

\* Mutant: a successful connect does not set histogramActive.
ActiveAfterAttachUnset(fifos) == histogramActive

\* histogramActive after setState: set on a successful connect only.
ActiveAfterAttach(fifos) == IF fifos # Null THEN TRUE ELSE histogramActive

\* DISTRHO_SAFE_ASSERT failures of setState("histogram"): they log and go on / return.
AttachAsserts(fifos) ==
    (IF IsCreatedOrConnected /\ histogramActive THEN 1 ELSE 0) + (IF fifos = Null THEN 1 ELSE 0)

setStateMode(value) ==
    /\ mode' = value
    /\ last' = Call("setState", "mode")
    /\ UNCHANGED <<bufferSizeForHistogram, numFramesSoFar, lufsInFifo, lufsOutFifo,
                   histogramSharedData, highestLufsInValue, highestLufsOutValue,
                   histogramActive, bufferSize, shm, windowMaxIn, windowMaxOut, drift, phase,
                   race>>

setStateHistogram(value) ==
    LET mem == IF IsCreatedOrConnected THEN Released(shm, histogramSharedData) ELSE shm
        fifos == OpenedRegion(mem, value)
    IN  /\ shm' = mem
        /\ histogramSharedData' = fifos
        /\ lufsInFifo' = FifoAfterAttach(lufsInFifo, fifos)
        /\ lufsOutFifo' = FifoAfterAttach(lufsOutFifo, fifos)
        /\ histogramActive' = ActiveAfterAttach(fifos)
        /\ last' = [Call("setState", IF fifos # Null THEN "attached" ELSE "failed")
                       EXCEPT !.asserts = AttachAsserts(fifos)]
        /\ phase' = IF fifos # Null /\ phase = "deactivated" THEN "reattached" ELSE phase
        /\ UNCHANGED <<mode, bufferSizeForHistogram, numFramesSoFar, highestLufsInValue,
                       highestLufsOutValue, bufferSize, windowMaxIn, windowMaxOut, drift,
                       race>>

setStateOther ==
    /\ last' = Call("setState", "ignored")
    /\ UNCHANGED <<plugin, bufferSize, shm, windowMaxIn, windowMaxOut, drift, phase, race>>

setState(key, value) ==
    IF key = "mode" THEN setStateMode(value)
    ELSE IF key = "histogram" THEN setStateHistogram(value)
    ELSE setStateOther

\* --------------------------------------------------------------------- run

\* Mutant: the accumulator takes the latest reading.
PeakWithLatest(highest, reading) == reading

\* highest = std::max(highest, reading)
PeakWith(highest, reading) == Max(highest, reading)

\* numFramesSoFar += frames
AdvancedCounter(frames) == numFramesSoFar + frames

\* if (numFramesSoFar >= bufferSizeForHistogram)
FlushReached(counter) == counter >= bufferSizeForHistogram

\* Mutant: the flush zeroes the counter.
CarriedCounterZeroed(counter) == 0

\* numFramesSoFar -= bufferSizeForHistogram
CarriedCounter(counter) == counter - bufferSizeForHistogram

\* Mutant: the flush does not check the data pointer.
FlushOutcomeUnchecked ==
    IF ~histogramActive THEN "inactive"
    ELSE IF DataPointer # Null /\ shm[DataPointer].closed THEN "closed"
    ELSE "write"

\* Mutant: the flush does not look at `closed`.
FlushOutcomeIgnoringClosed ==
    IF ~histogramActive THEN "inactive"
    ELSE IF DataPointer = Null THEN "nodata"
    ELSE "write"

\* What a flush does with the channel: skips it while inactive, returns on a null data
\* pointer, deactivates on `closed`, writes otherwise.
FlushOutcome ==
    IF ~histogramActive THEN "inactive"
    ELSE IF DataPointer = Null THEN "nodata"
    ELSE IF shm[DataPointer].closed THEN "closed"
    ELSE "write"

\* Reads of data->closed in one callback.
ClosedReads(outcome) == IF outcome \in {"closed", "write"} THEN 1 ELSE 0

\* histogramActive = false, on `closed` only.
ActiveAfterFlush(outcome) == IF outcome = "closed" THEN FALSE ELSE histogramActive

\* Mutant: the flush that sees `closed` clears it.
ClosedClearedOnDetect(outcome, closed) == IF outcome = "closed" THEN FALSE ELSE closed

\* `closed` as the callback leaves it: run() never stores to it.
ClosedAfterFlush(outcome, closed) == closed

\* highestLufsInValue = highestLufsOutValue = -70.f, on every flush that reaches it.
PeaksReset(outcome) == outcome \in {"inactive", "closed", "write"}

PeakAfterRun(outcome, peak) == IF PeaksReset(outcome) THEN kSilenceFloor ELSE peak

\* lufsInFifo.write(highestLufsInValue): the samples one callback hands to a ring control
\* (a control bound to no ring writes nothing).
FifoWrites(fifo, outcome, peak) == IF outcome = "write" /\ fifo # Null THEN <<peak>> ELSE <<>>

RECURSIVE RingWriteAll(_, _)
RingWriteAll(ring, samples) ==
    IF samples = <<>> THEN ring ELSE RingWriteAll(RingWrite(ring, Head(samples)), Tail(samples))

\* The shared regions after a callback.
MemAfterRun(outcome, wIn, wOut) ==
    LET a == IF wIn = <<>> THEN shm
             ELSE [shm EXCEPT ![lufsInFifo].lufsIn = RingWriteAll(@, wIn)]
        b == IF wOut = <<>> THEN a
             ELSE [a EXCEPT ![lufsOutFifo].lufsOut = RingWriteAll(@, wOut)]
    IN  IF DataPointer = Null THEN b
        ELSE [b EXCEPT ![DataPointer].closed = ClosedAfterFlush(outcome, @)]

\* The drift bookkeeping after a callback of `frames` frames.
DriftAfterRun(frames, flush) ==
    IF ~drift.on THEN drift
    ELSE IF drift.frames + frames > MaxTotalFrames THEN NoDrift
    ELSE [armed |-> TRUE,
          on |-> TRUE,
          frames |-> drift.frames + frames,
          flushes |-> drift.flushes + (IF flush THEN 1 ELSE 0),
          small |-> drift.small /\ frames <= bufferSizeForHistogram]

\* One audio callback over finite samples (a non-finite sample makes lines 194-204
\* undefined behaviour; the host contract excludes it): dsp->compute, the peaks, the frame
\* counter and, at the threshold, the flush.
run(frames, lufs_in, lufs_out) ==
    LET peakIn == PeakWith(highestLufsInValue, lufs_in)
        peakOut == PeakWith(highestLufsOutValue, lufs_out)
        counter == AdvancedCounter(frames)
        flush == FlushReached(counter)
        outcome == IF flush THEN FlushOutcome ELSE "below"
        wIn == FifoWrites(lufsInFifo, outcome, peakIn)
        wOut == FifoWrites(lufsOutFifo, outcome, peakOut)
        maxIn == Max(windowMaxIn, lufs_in)
        maxOut == Max(windowMaxOut, lufs_out)
    IN  /\ counter <= MaxCounter
        /\ numFramesSoFar' = IF flush THEN CarriedCounter(counter) ELSE counter
        /\ histogramActive' = ActiveAfterFlush(outcome)
        /\ shm' = MemAfterRun(outcome, wIn, wOut)
        /\ highestLufsInValue' = PeakAfterRun(outcome, peakIn)
        /\ highestLufsOutValue' = PeakAfterRun(outcome, peakOut)
        /\ windowMaxIn' = IF PeaksReset(outcome) THEN NoReading ELSE maxIn
        /\ windowMaxOut' = IF PeaksReset(outcome) THEN NoReading ELSE maxOut
        /\ last' = [op |-> "run", outcome |-> outcome, wroteIn |-> wIn, wroteOut |-> wOut,
                    closedReads |-> ClosedReads(outcome), computeCalls |-> 1,
                    asserts |-> IF outcome = "nodata" THEN 1 ELSE 0,
                    maxIn |-> IF outcome = "write" THEN maxIn ELSE NoReading,
                    maxOut |-> IF outcome = "write" THEN maxOut ELSE NoReading,
                    drainedIn |-> <<>>, drainedOut |-> <<>>]
        /\ drift' = DriftAfterRun(frames, flush)
        /\ phase' = IF outcome = "closed" THEN "deactivated" ELSE phase
        /\ UNCHANGED <<mode, bufferSizeForHistogram, lufsInFifo, lufsOutFifo,
                       histogramSharedData, bufferSize, race>>

\* -------------------------------------------------------- getParameterValue

\* Mutant: the parameter reports the host buffer size.
HostBufferSizeParameter == ToFloat(bufferSize)

\* getParameterValue(kParameterCount + kExtraParameterHistogramBufferSize)
HistogramBufferSizeParameter == ToFloat(bufferSizeForHistogram)

\* One step of the plugin and of the UI, over the given session names, frame counts and
\* readings.
Step(names, frameCounts, readings) ==
    \/ \E f \in frameCounts, i, o \in readings : run(f, i, o)
    \/ \E x \in BufferSizes : bufferSizeChanged(x)
    \/ activate
    \/ \E v \in ModeValues : setState("mode", v)
    \/ \E n \in names : setState("histogram", n)
    \/ setState("export", "")
    \/ \E n \in names : uiCreate(n)
    \/ \E n \in names : uiSignalClosed(n)
    \/ \E n \in names : uiDrain(n)
    \/ \E n \in names : uiDestroy(n)

\* The plugin and the UI over every session name, the signal audible throughout.
Next == Step(SessionNames, FrameCounts, LoudReadings)

Spec == Init /\ [][Next]_vars

\* The plugin and the UI over one session, with every reading, in callbacks of one frame
\* or of a whole buffer.
NextPeaks == Step({1}, {1, MaxBufferSize}, Readings)

SpecPeaks == Init /\ [][NextPeaks]_vars

\* The plugin alone (no UI ever creates a region), with the drift bookkeeping kept.
InitWindow ==
    /\ bufferSize \in BufferSizes
    /\ mode = ""
    /\ bufferSizeForHistogram = HistogramBufferSizeFor(bufferSize)
    /\ numFramesSoFar = 0
    /\ lufsInFifo = Null
    /\ lufsOutFifo = Null
    /\ histogramSharedData = Null
    /\ highestLufsInValue = kSilenceFloor
    /\ highestLufsOutValue = kSilenceFloor
    /\ histogramActive = FALSE
    /\ shm = [n \in SessionNames |-> EmptyRegion]
    /\ last = NoCall
    /\ windowMaxIn = NoReading
    /\ windowMaxOut = NoReading
    /\ drift = FreshDrift
    /\ phase = "fresh"
    /\ race = NoRace

NextWindow ==
    \/ \E f \in FrameCounts, i, o \in LoudReadings : run(f, i, o)
    \/ \E x \in BufferSizes : bufferSizeChanged(x)
    \/ activate
    \/ \E v \in ModeValues : setState("mode", v)
    \/ \E n \in SessionNames : setState("histogram", n)
    \/ setState("export", "")

SpecWindow == InitWindow /\ [][NextWindow]_vars

\* The plugin under a host that keeps its word: no callback delivers more frames than the
\* buffer size the host last announced, and the host may announce any buffer size.
NextHost ==
    \/ \E f \in FrameCounts, i, o \in Readings : f <= bufferSize /\ run(f, i, o)
    \/ \E x \in HostBufferSizes : bufferSizeChanged(x)
    \/ activate

SpecHost == Init /\ [][NextHost]_vars

\* ------------------------------------- run() and setState, line by line

\* The code takes no lock and declares no member atomic: while the audio thread is inside
\* run() the host thread can be inside setState("histogram"), and each line of one takes
\* effect between two lines of the other. `last` and the window bookkeeping describe whole
\* calls and are left alone here; the calls in progress are followed in `race`. A fault
\* ends the process: neither thread takes another step ("crashed"), the UI goes on.

\* Lines 206-215: dsp->compute, the peaks, the frame counter and the threshold test.
runEnter(frames, lufs_in, lufs_out) ==
    LET counter == AdvancedCounter(frames)
        flush == FlushReached(counter)
    IN  /\ race.rpc = "idle"
        /\ counter <= MaxCounter
        /\ highestLufsInValue' = PeakWith(highestLufsInValue, lufs_in)
        /\ highestLufsOutValue' = PeakWith(highestLufsOutValue, lufs_out)
        /\ numFramesSoFar' = IF flush THEN CarriedCounter(counter) ELSE counter
        /\ race' = [race EXCEPT !.rpc = IF flush THEN "active" ELSE "idle",
                                !.data = Null, !.stale = FALSE,
                                !.inTo = Null, !.outTo = Null]
        /\ UNCHANGED <<mode, bufferSizeForHistogram, lufsInFifo, lufsOutFifo,
                       histogramSharedData, histogramActive, bufferSize, shm, last,
                       windowMaxIn, windowMaxOut, drift, phase>>

\* Line 217: if (histogramActive)
runCheckActive ==
    /\ race.rpc = "active"
    /\ race' = [race EXCEPT !.rpc = IF histogramActive THEN "data" ELSE "reset"]
    /\ UNCHANGED <<plugin, bufferSize, shm, last, windowMaxIn, windowMaxOut, drift, phase>>

\* Lines 219-220: data = histogramSharedData.getDataPointer(); return on nullptr.
runGetData ==
    /\ race.rpc = "data"
    /\ race' = [race EXCEPT !.data = DataPointer, !.stale = FALSE,
                            !.rpc = IF DataPointer = Null THEN "idle" ELSE "closed"]
    /\ UNCHANGED <<plugin, bufferSize, shm, last, windowMaxIn, windowMaxOut, drift, phase>>

\* What a read of data->closed can return. While the mapping `data` points into is in
\* place, the flag of that region. Once setState has closed that mapping (line 164) the read
\* is of an address the plugin no longer maps: it faults (ClosedFaults), or some other
\* mapping of the process has taken the address and the read returns whatever byte lies
\* there, true or false, whatever region is attached by then.
ClosedSeen == IF race.stale THEN BOOLEAN ELSE {shm[race.data].closed}

\* The read of data->closed can fault (SIGSEGV): the process ends inside run().
ClosedFaults == race.stale

\* Line 222: if (data->closed), the read alone.
runReadClosed ==
    /\ race.rpc = "closed"
    /\ \/ \E closed \in ClosedSeen :
             race' = [race EXCEPT !.rpc = IF closed THEN "deactivate" ELSE "writeIn"]
       \/ /\ ClosedFaults
          /\ race' = [race EXCEPT !.rpc = "crashed", !.spc = "crashed"]
    /\ UNCHANGED <<plugin, bufferSize, shm, last, windowMaxIn, windowMaxOut, drift, phase>>

\* Line 224: histogramActive = false, a store of its own after the read of line 222.
runDeactivate ==
    /\ race.rpc = "deactivate"
    /\ histogramActive' = FALSE
    /\ race' = [race EXCEPT !.rpc = "reset"]
    /\ UNCHANGED <<mode, bufferSizeForHistogram, numFramesSoFar, lufsInFifo, lufsOutFifo,
                   histogramSharedData, highestLufsInValue, highestLufsOutValue, bufferSize,
                   shm, last, windowMaxIn, windowMaxOut, drift, phase>>

\* Line 228: lufsInFifo.write(highestLufsInValue)
runWriteIn ==
    /\ race.rpc = "writeIn"
    /\ shm' = IF lufsInFifo = Null THEN shm
              ELSE [shm EXCEPT ![lufsInFifo].lufsIn = RingWrite(@, highestLufsInValue)]
    /\ race' = [race EXCEPT !.rpc = "writeOut", !.inTo = lufsInFifo]
    /\ UNCHANGED <<plugin, bufferSize, last, windowMaxIn, windowMaxOut, drift, phase>>

\* Line 229: lufsOutFifo.write(highestLufsOutValue)
runWriteOut ==
    /\ race.rpc = "writeOut"
    /\ shm' = IF lufsOutFifo = Null THEN shm
              ELSE [shm EXCEPT ![lufsOutFifo].lufsOut = RingWrite(@, highestLufsOutValue)]
    /\ race' = [race EXCEPT !.rpc = "reset", !.outTo = lufsOutFifo]
    /\ UNCHANGED <<plugin, bufferSize, last, windowMaxIn, windowMaxOut, drift, phase>>

\* Line 233: highestLufsInValue = highestLufsOutValue = -70.f
runReset ==
    /\ race.rpc = "reset"
    /\ highestLufsInValue' = kSilenceFloor
    /\ highestLufsOutValue' = kSilenceFloor
    /\ race' = [race EXCEPT !.rpc = "idle"]
    /\ UNCHANGED <<mode, bufferSizeForHistogram, numFramesSoFar, lufsInFifo, lufsOutFifo,
                   histogramSharedData, histogramActive, bufferSize, shm, last,
                   windowMaxIn, windowMaxOut, drift, phase>>

\* Lines 157-159: the key is "histogram"; if (histogramSharedData.isCreatedOrConnected())
setEnter(value) ==
    /\ race.spc = "idle"
    /\ race' = [race EXCEPT !.value = value,
                            !.spc = IF IsCreatedOrConnected THEN "unbindIn" ELSE "connect"]
    /\ UNCHANGED <<plugin, bufferSize, shm, last, windowMaxIn, windowMaxOut, drift, phase>>

\* Line 162: lufsInFifo.setFloatFifo(nullptr)
setUnbindIn ==
    /\ race.spc = "unbindIn"
    /\ lufsInFifo' = Null
    /\ race' = [race EXCEPT !.spc = "unbindOut"]
    /\ UNCHANGED <<mode, bufferSizeForHistogram, numFramesSoFar, lufsOutFifo,
                   histogramSharedData, highestLufsInValue, highestLufsOutValue,
                   histogramActive, bufferSize, shm, last, windowMaxIn, windowMaxOut, drift,
                   phase>>

\* Line 163: lufsOutFifo.setFloatFifo(nullptr)
setUnbindOut ==
    /\ race.spc = "unbindOut"
    /\ lufsOutFifo' = Null
    /\ race' = [race EXCEPT !.spc = "close"]
    /\ UNCHANGED <<mode, bufferSizeForHistogram, numFramesSoFar, lufsInFifo,
                   histogramSharedData, highestLufsInValue, highestLufsOutValue,
                   histogramActive, bufferSize, shm, last, windowMaxIn, windowMaxOut, drift,
                   phase>>

\* Line 164: histogramSharedData.close(); a data pointer the callback still holds now
\* points into memory that is no longer mapped.
setClose ==
    /\ race.spc = "close"
    /\ shm' = Released(shm, histogramSharedData)
    /\ histogramSharedData' = Null
    /\ race' = [race EXCEPT !.spc = "connect", !.stale = (race.data # Null)]
    /\ UNCHANGED <<mode, bufferSizeForHistogram, numFramesSoFar, lufsInFifo, lufsOutFifo,
                   highestLufsInValue, highestLufsOutValue, histogramActive, bufferSize,
                   last, windowMaxIn, windowMaxOut, drift, phase>>

\* Lines 167-168: fifos = histogramSharedData.connect(value); return on nullptr.
setConnect ==
    LET fifos == OpenedRegion(shm, race.value)
    IN  /\ race.spc = "connect"
        /\ histogramSharedData' = fifos
        /\ race' = [race EXCEPT !.spc = IF fifos = Null THEN "idle" ELSE "bindIn"]
        /\ UNCHANGED <<mode, bufferSizeForHistogram, numFramesSoFar, lufsInFifo,
                       lufsOutFifo, highestLufsInValue, highestLufsOutValue,
                       histogramActive, bufferSize, shm, last, windowMaxIn, windowMaxOut,
                       drift, phase>>

\* Line 170: lufsInFifo.setFloatFifo(&fifos->lufsIn)
setBindIn ==
    /\ race.spc = "bindIn"
    /\ lufsInFifo' = histogramSharedData
    /\ race' = [race EXCEPT !.spc = "bindOut"]
    /\ UNCHANGED <<mode, bufferSizeForHistogram, numFramesSoFar, lufsOutFifo,
                   histogramSharedData, highestLufsInValue, highestLufsOutValue,
                   histogramActive, bufferSize, shm, last, windowMaxIn, windowMaxOut, drift,
                   phase>>

\* Line 171: lufsOutFifo.setFloatFifo(&fifos->lufsOut)
setBindOut ==
    /\ race.spc = "bindOut"
    /\ lufsOutFifo' = histogramSharedData
    /\ race' = [race EXCEPT !.spc = "activate"]
    /\ UNCHANGED <<mode, bufferSizeForHistogram, numFramesSoFar, lufsInFifo,
                   histogramSharedData, highestLufsInValue, highestLufsOutValue,
                   histogramActive, bufferSize, shm, last, windowMaxIn, windowMaxOut, drift,
                   phase>>

\* Line 172: histogramActive = true
setActivate ==
    /\ race.spc = "activate"
    /\ histogramActive' = TRUE
    /\ race' = [race EXCEPT !.spc = "idle"]
    /\ UNCHANGED <<mode, bufferSizeForHistogram, numFramesSoFar, lufsInFifo, lufsOutFifo,
                   histogramSharedData, highestLufsInValue, highestLufsOutValue, bufferSize,
                   shm, last, windowMaxIn, windowMaxOut, drift, phase>>

\* The audio thread in run(), the host thread in setState("histogram") and the UI, each
\* line of one between any two lines of the others.
NextRace ==
    \/ \E f \in RaceFrameCounts, i, o \in LoudReadings : runEnter(f, i, o)
    \/ runCheckActive
    \/ runGetData
    \/ runReadClosed
    \/ runDeactivate
    \/ runWriteIn
    \/ runWriteOut
    \/ runReset
    \/ \E n \in SessionNames : setEnter(n)
    \/ setUnbindIn
    \/ setUnbindOut
    \/ setClose
    \/ setConnect
    \/ setBindIn
    \/ setBindOut
    \/ setActivate
    \/ \E n \in SessionNames : uiCreate(n)
    \/ \E n \in SessionNames : uiSignalClosed(n)
    \/ \E n \in SessionNames : uiDrain(n)
    \/ \E n \in SessionNames : uiDestroy(n)

SpecRace == Init /\ [][NextRace]_vars

\* ================================================================== claims

ProducerOps == {"run", "setState", "activate", "bufferSizeChanged"}

\* This step handed no sample to a ring control and left every ring as it was.
RingsUntouched ==
    /\ last'.wroteIn = <<>>
    /\ last'.wroteOut = <<>>
    /\ \A n \in SessionNames :
          shm'[n].lufsIn = shm[n].lufsIn /\ shm'[n].lufsOut = shm[n].lufsOut

\* This step handed no sample to a ring control and no ring grew.
NothingWritten ==
    /\ last'.wroteIn = <<>>
    /\ last'.wroteOut = <<>>
    /\ \A n \in SessionNames :
          Len(shm'[n].lufsIn) <= Len(shm[n].lufsIn) /\ Len(shm'[n].lufsOut) <= Len(shm[n].lufsOut)

\* This step is a run() callback that reaches the flush threshold.
FlushStep == last'.op = "run" /\ last'.outcome # "below"

\* C1: once the attached region's `closed` is set, the first run() callback that reaches
\* the flush threshold writes to neither ring and leaves histogramActive false; and
\* while histogramActive is false no step writes a ring or sets it again, except a
\* setState("histogram") that connects.
ClosedStopsWrites ==
    [][ /\ (FlushStep /\ DataPointer # Null /\ shm[DataPointer].closed)
             => (RingsUntouched /\ ~histogramActive')
        /\ (~histogramActive /\ ~(last'.op = "setState" /\ last'.outcome = "attached"))
             => (NothingWritten /\ ~histogramActive') ]_vars

\* A flush after the one that saw `closed`: the channel is still attached, closed and
\* inactive, and the flush was skipped.
ClosedStopsWritesWitness ==
    /\ last.op = "run"
    /\ last.outcome = "inactive"
    /\ phase = "deactivated"
    /\ DataPointer # Null
    /\ shm[DataPointer].closed
    /\ ~histogramActive

\* C2 (as claimed): on a suppressed flush (the threshold is reached while the channel is
\* closed or inactive) neither peak accumulator decreases.
SuppressedFlushKeepsPeaks ==
    [][ (last'.op = "run" /\ last'.outcome \in {"closed", "inactive"})
            => /\ highestLufsInValue' >= highestLufsInValue
               /\ highestLufsOutValue' >= highestLufsOutValue ]_vars

\* C3: the flush threshold is the host buffer size last announced (to the constructor or
\* to bufferSizeChanged), raised to kMinimumHistogramBufferSize, and so never below it.
ThresholdIsFlooredBufferSize ==
    /\ bufferSizeForHistogram >= kMinimumHistogramBufferSize
    /\ bufferSizeForHistogram =
          (IF bufferSize < kMinimumHistogramBufferSize
           THEN kMinimumHistogramBufferSize ELSE bufferSize)

\* bufferSizeChanged was called with a size below the floor.
ThresholdIsFlooredBufferSizeWitness ==
    /\ last.op = "bufferSizeChanged"
    /\ bufferSize < kMinimumHistogramBufferSize
    /\ bufferSizeForHistogram = kMinimumHistogramBufferSize

\* C4 (as claimed): after activate() the frame counter is zero and both peak accumulators
\* are at the silence floor.
ActivateResetsCounterAndPeaks ==
    last.op = "activate"
        => /\ numFramesSoFar = 0
           /\ highestLufsInValue = kSilenceFloor
           /\ highestLufsOutValue = kSilenceFloor

\* Before this step the channel takes writes: active, attached, not closed.
ChannelOpen == histogramActive /\ DataPointer # Null /\ ~shm[DataPointer].closed

\* This step appended exactly the samples it handed to the ring controls to the rings of
\* the region attached before it.
AttachedRingsTookSamples ==
    /\ shm'[DataPointer].lufsIn = RingWriteAll(shm[DataPointer].lufsIn, last'.wroteIn)
    /\ shm'[DataPointer].lufsOut = RingWriteAll(shm[DataPointer].lufsOut, last'.wroteOut)
    /\ \A n \in SessionNames \ {DataPointer} :
          shm'[n].lufsIn = shm[n].lufsIn /\ shm'[n].lufsOut = shm[n].lufsOut

\* C5 (as claimed): a flush on an open channel writes exactly one sample to each ring, the
\* maximum reading observed since the previous peak reset, and leaves both peaks at the
\* silence floor; a callback below the threshold writes nothing.
FlushWritesWindowMaximum ==
    [][ last'.op = "run" =>
          /\ (last'.outcome # "below" /\ ChannelOpen)
                => /\ last'.outcome = "write"
                   /\ last'.wroteIn = <<last'.maxIn>>
                   /\ last'.wroteOut = <<last'.maxOut>>
                   /\ AttachedRingsTookSamples
                   /\ highestLufsInValue' = kSilenceFloor
                   /\ highestLufsOutValue' = kSilenceFloor
          /\ last'.outcome = "below" => RingsUntouched ]_vars

\* C5 (amended): a flush on an open channel writes exactly one sample to each ring, the
\* larger of the silence floor and the maximum reading observed since the previous peak
\* reset, and leaves both peaks at the silence floor; a callback below the threshold
\* writes nothing.
FlushWritesFlooredWindowMaximum ==
    [][ last'.op = "run" =>
          /\ (last'.outcome # "below" /\ ChannelOpen)
                => /\ last'.outcome = "write"
                   /\ last'.maxIn \in Readings /\ last'.maxIn >= windowMaxIn
                   /\ last'.maxOut \in Readings /\ last'.maxOut >= windowMaxOut
                   /\ last'.wroteIn = <<Max(kSilenceFloor, last'.maxIn)>>
                   /\ last'.wroteOut = <<Max(kSilenceFloor, last'.maxOut)>>
                   /\ AttachedRingsTookSamples
                   /\ highestLufsInValue' = kSilenceFloor
                   /\ highestLufsOutValue' = kSilenceFloor
          /\ last'.outcome = "below" => RingsUntouched ]_vars

\* A flush wrote a window whose input readings rose above the floor and whose output
\* readings all stayed below it.
FlushWritesFlooredWindowMaximumWitness ==
    /\ last.op = "run"
    /\ last.outcome = "write"
    /\ last.maxIn = kSilenceFloor + 1
    /\ last.wroteIn = <<kSilenceFloor + 1>>
    /\ last.maxOut = kSilenceFloor - 1
    /\ last.wroteOut = <<kSilenceFloor>>
    /\ highestLufsInValue = kSilenceFloor

\* C6: each flush takes exactly the threshold off the frame counter, so that since the
\* counter was zeroed, at an unchanged threshold T, the frames delivered are T times the
\* flush points plus the counter; and while every callback delivered at most T frames the
\* flush points number floor(frames / T).
NoWindowDrift ==
    drift.on =>
        /\ drift.frames = drift.flushes * bufferSizeForHistogram + numFramesSoFar
        /\ drift.small => drift.flushes = drift.frames \div bufferSizeForHistogram

\* Two flush points passed in callbacks of at most T frames, with frames carried over.
NoWindowDriftWitness ==
    /\ drift.on
    /\ drift.small
    /\ drift.flushes = 2
    /\ numFramesSoFar > 0

\* C7: a setState("histogram", name) whose region cannot be opened leaves the plugin
\* unattached with both ring controls unbound; and while it is unattached every run()
\* callback calls dsp->compute once and advances the frame counter, writes no ring and
\* does not read through the data pointer.
FailedAttachLeavesMeteringInert ==
    [][ /\ \A n \in SessionNames :
              (setState("histogram", n) /\ ~shm[n].exists)
                  => /\ last'.outcome = "failed"
                     /\ histogramSharedData' = Null
                     /\ lufsInFifo' = Null
                     /\ lufsOutFifo' = Null
        /\ (last'.op = "run" /\ DataPointer = Null)
              => /\ RingsUntouched
                 /\ last'.closedReads = 0
                 /\ last'.computeCalls = 1
                 /\ \E f \in FrameCounts :
                       numFramesSoFar' =
                           IF numFramesSoFar + f >= bufferSizeForHistogram
                           THEN numFramesSoFar + f - bufferSizeForHistogram
                           ELSE numFramesSoFar + f ]_vars

\* A callback reached the threshold with histogramActive still set after a failed
\* re-attach, and returned on the null data pointer.
FailedAttachLeavesMeteringInertWitness ==
    /\ last.op = "run"
    /\ last.outcome = "nodata"
    /\ histogramActive
    /\ histogramSharedData = Null

\* C8: a setState("histogram", name) on an existing region leaves histogramActive true and
\* the handle and both ring controls on that region, also after the channel was
\* deactivated on `closed`; and a flush on an attached, active channel whose `closed` is
\* false writes one sample to each ring of the attached region.
ReconnectReactivates ==
    [][ /\ \A n \in SessionNames :
              (setState("histogram", n) /\ shm[n].exists)
                  => /\ last'.outcome = "attached"
                     /\ histogramActive'
                     /\ histogramSharedData' = n
                     /\ lufsInFifo' = n
                     /\ lufsOutFifo' = n
        /\ (FlushStep /\ ChannelOpen)
              => /\ Len(last'.wroteIn) = 1
                 /\ Len(last'.wroteOut) = 1
                 /\ AttachedRingsTookSamples ]_vars

\* The channel was deactivated on `closed`, attached again, and the next flush wrote.
ReconnectReactivatesWitness ==
    /\ phase = "reattached"
    /\ last.op = "run"
    /\ last.outcome = "write"
    /\ last.wroteIn = <<kSilenceFloor + 1>>
    /\ last.wroteOut = <<kSilenceFloor + 1>>

\* C9: no call of run, setState, activate or bufferSizeChanged changes the `closed` flag
\* of a region (a region gone with its last mapping aside); a call reads `closed` at most
\* once, and only run() does, at a flush reached with histogramActive true.
ProducerNeverWritesClosed ==
    [][ last'.op \in ProducerOps =>
          /\ \A n \in SessionNames :
                \/ shm'[n].closed = shm[n].closed
                \/ (shm'[n] = EmptyRegion /\ ~shm[n].exists /\ histogramSharedData = n)
          /\ last'.closedReads <= 1
          /\ last'.closedReads = 1 => (FlushStep /\ histogramActive /\ DataPointer # Null) ]_vars

\* A flush read `closed`, found it set, and left it set.
ProducerNeverWritesClosedWitness ==
    /\ last.op = "run"
    /\ last.outcome = "closed"
    /\ last.closedReads = 1
    /\ DataPointer # Null
    /\ shm[DataPointer].closed

\* C10: the "Histogram Buffer Size" parameter reports the flush threshold: the value
\* run() compares the frame counter against.
ParameterReportsThreshold ==
    /\ HistogramBufferSizeParameter = bufferSizeForHistogram
    /\ \A c \in 0..MaxCounter : FlushReached(c) <=> c >= HistogramBufferSizeParameter

\* bufferSizeChanged has just raised the window above the floor, mid-window.
ParameterReportsThresholdWitness ==
    /\ last.op = "bufferSizeChanged"
    /\ numFramesSoFar > 0
    /\ HistogramBufferSizeParameter = MaxBufferSize
    /\ MaxBufferSize > kMinimumHistogramBufferSize

\* C11 (as claimed): at every callback boundary each ring has been written the same number
\* of samples, the Nth of each from the same window (a callback that wrote put one sample
\* into each ring of one region, or into neither); inside a callback the output ring is
\* never ahead, and the input ring at most the one sample of this callback.
RingsFlushedTogether ==
    /\ race.rpc = "idle" => race.inTo = race.outTo
    /\ race.rpc # "idle" => (race.outTo = Null \/ race.outTo = race.inTo)

\* C12 (as claimed): bufferSizeChanged leaves the producer detached from the region it was
\* attached to (handle unattached, both ring controls unbound, histogramActive false), and
\* the callback that follows it writes no sample.
ResizeDestroysChannel ==
    [][ /\ last'.op = "bufferSizeChanged"
              => /\ histogramSharedData' = Null
                 /\ lufsInFifo' = Null
                 /\ lufsOutFifo' = Null
                 /\ ~histogramActive'
        /\ (last.op = "bufferSizeChanged" /\ last'.op = "run") => RingsUntouched ]_vars

\* C13 (as claimed): setState("histogram", name) makes the producer the creator of the
\* region of that name: after the call the region exists and the producer is attached to
\* it, whether or not a region of that name existed before.
ProducerCreatesRegion ==
    [][ \A n \in SessionNames :
           setState("histogram", n) => (histogramSharedData' = n /\ shm'[n].exists) ]_vars

\* C14: while a ring is not full, a flush appends its sample behind the samples already in
\* the ring, which keep their order; no other call of the producer changes the contents of
\* a ring (a region gone with its last mapping aside); and a drain takes out exactly the
\* contents of the ring, oldest first. So writes w1..wn (n within the capacity) with no
\* read in between are drained as w1..wn.
RingDeliversInWriteOrder ==
    [][ /\ last'.op = "run" =>
              \A n \in SessionNames :
                 /\ \/ shm'[n].lufsIn = shm[n].lufsIn
                    \/ Len(shm[n].lufsIn) = kRingCapacity
                    \/ /\ Len(last'.wroteIn) = 1
                       /\ shm'[n].lufsIn = Append(shm[n].lufsIn, last'.wroteIn[1])
                 /\ \/ shm'[n].lufsOut = shm[n].lufsOut
                    \/ Len(shm[n].lufsOut) = kRingCapacity
                    \/ /\ Len(last'.wroteOut) = 1
                       /\ shm'[n].lufsOut = Append(shm[n].lufsOut, last'.wroteOut[1])
        /\ last'.op \in ProducerOps \ {"run"} =>
              \A n \in SessionNames :
                 \/ shm'[n].lufsIn = shm[n].lufsIn /\ shm'[n].lufsOut = shm[n].lufsOut
                 \/ shm'[n] = EmptyRegion /\ ~shm[n].exists /\ histogramSharedData = n
        /\ \A n \in SessionNames :
              uiDrain(n) => /\ last'.drainedIn = shm[n].lufsIn
                            /\ last'.drainedOut = shm[n].lufsOut
                            /\ shm'[n].lufsIn = <<>>
                            /\ shm'[n].lufsOut = <<>> ]_vars

\* Two windows with different peaks were flushed with no read in between, and the drain
\* took them out in the order they were written.
RingDeliversInWriteOrderWitness ==
    /\ last.op = "ui"
    /\ last.outcome = "drain"
    /\ last.drainedIn = <<kSilenceFloor + 1, kSilenceFloor>>
    /\ last.drainedOut = <<kSilenceFloor, kSilenceFloor + 1>>

\* C15 (as claimed): histogramActive is true only while the shared region is attached and
\* both ring controls are bound to it.
ActiveOnlyWhileAttached ==
    histogramActive
        => /\ histogramSharedData # Null
           /\ lufsInFifo = histogramSharedData
           /\ lufsOutFifo = histogramSharedData

\* C16 (as claimed): with setState("histogram") interleaved line by line with run(), each
\* write of run() goes through a ring control that is bound, and bound to the region that
\* is attached.
RunWritesThroughBoundControls ==
    [][ /\ (race.rpc = "writeIn" /\ race'.rpc = "writeOut")
              => (lufsInFifo # Null /\ lufsInFifo = histogramSharedData)
        /\ (race.rpc = "writeOut" /\ race'.rpc = "reset")
              => (lufsOutFifo # Null /\ lufsOutFifo = histogramSharedData) ]_vars

\* C17 (as claimed): under a host whose callbacks deliver at most the current host buffer
\* size, the frame counter is below the flush threshold whenever run() has returned.
CounterBelowThresholdAfterRun ==
    last.op = "run" => numFramesSoFar < bufferSizeForHistogram

\* C18 (as claimed): the "Histogram Buffer Size" parameter reports a value within the range
\* declared for it, kMinimumHistogramBufferSize to 16384, whatever buffer sizes the host
\* has announced.
ParameterWithinDeclaredRange ==
    /\ HistogramBufferSizeParameter >= kMinimumHistogramBufferSize
    /\ HistogramBufferSizeParameter <= kHistogramBufferSizeMax
====
